---- MODULE Spec2Model ----
(***************************************************************************)
(* Moving-average crossover backtesting engine (src/backtester.py).        *)
(*                                                                         *)
(* A pandas Series is a sequence; row k of the source (0-based, iloc[k])   *)
(* is element k+1 here.  A float is a record [nan, num, den]: NaN, or the  *)
(* rational num/den in lowest terms, so that equal values are equal        *)
(* records.  A DataFrame is a record of equally long columns plus its      *)
(* index of timestamps (month numbers).                                    *)
(***************************************************************************)
EXTENDS Integers, Sequences, FiniteSets, TLC

\* ------------------------------------------------------------------ bounds
\* Price levels are 1..MaxPrice.
MaxPrice == 2
\* A price series is a flat history of at most MaxWarm months ...
MaxWarm == 14
\* ... followed by at most MaxTail freely chosen monthly closes.
MaxTail == 6
\* In a portfolio an instrument has a flat history of PortWarm months; instrument
\* "A" has at most PortTail freely chosen closes after it ...
PortWarm == 9
PortTail == 3
\* ... and instrument "B" at most PeerTail.
PeerTail == 2
\* A return series handed to calculate_metrics has at most MaxReturns periods ...
MaxReturns == 3
\* ... and its benchmark at most MaxBench.
MaxBench == 2

\* --------------------------------------------------------------- constants
\* backtest_portfolio's fixed equal-weight divisor.
N == 30
\* Minimum number of observations of get_current_signal / backtest_portfolio.
MinLen == 11

\* ------------------------------------------------------------------ floats
Abs(n) == IF n < 0 THEN -n ELSE n

RECURSIVE GCD(_, _)
GCD(a, b) == IF b = 0 THEN a ELSE GCD(b, a % b)

NaN == [nan |-> TRUE, num |-> 0, den |-> 1]

\* The float n/d (d > 0), in lowest terms.
Rat(n, d) ==
    LET g == GCD(Abs(n), d)
    IN  [nan |-> FALSE, num |-> n \div g, den |-> d \div g]

Num(n) == Rat(n, 1)

Zero == Num(0)
One == Num(1)

\* Arithmetic propagates NaN.  Common factors are taken out before multiplying.
Add(a, b) ==
    LET g == GCD(a.den, b.den)
    IN  IF a.nan \/ b.nan THEN NaN
        ELSE Rat(a.num * (b.den \div g) + b.num * (a.den \div g), (a.den \div g) * b.den)

Sub(a, b) ==
    LET g == GCD(a.den, b.den)
    IN  IF a.nan \/ b.nan THEN NaN
        ELSE Rat(a.num * (b.den \div g) - b.num * (a.den \div g), (a.den \div g) * b.den)

Mul(a, b) ==
    LET g == GCD(Abs(a.num), b.den)
        h == GCD(Abs(b.num), a.den)
    IN  IF a.nan \/ b.nan THEN NaN
        ELSE Rat((a.num \div g) * (b.num \div h), (a.den \div h) * (b.den \div g))

\* a / b for b # 0.
Div(a, b) ==
    LET g == GCD(Abs(a.num), Abs(b.num))
        h == GCD(a.den, b.den)
        sign == IF b.num < 0 THEN -1 ELSE 1
    IN  IF a.nan \/ b.nan THEN NaN
        ELSE Rat(sign * (a.num \div g) * (b.den \div h), (a.den \div h) * (Abs(b.num) \div g))

\* Comparisons with NaN are false.
Gt(a, b) ==
    LET g == GCD(a.den, b.den)
    IN  ~a.nan /\ ~b.nan /\ a.num * (b.den \div g) > b.num * (a.den \div g)

EqNum(a, n) == ~a.nan /\ a.num = n * a.den

\* A column with its n rows computed once: the sequence <<f[1], ..., f[n]>>.
RECURSIVE rows(_, _)
rows(f, n) == IF n = 0 THEN <<>> ELSE Append(rows(f, n - 1), f[n])

\* A row with its cells computed once: the function f on the names of S.
RECURSIVE cells(_, _)
cells(f, S) ==
    IF S = {} THEN <<>>
    ELSE LET c == CHOOSE x \in S : TRUE
         IN  (c :> f[c]) @@ cells(f, S \ {c})

\* Variant: missing values are left missing.
fillna_keep(s, v) == s

\* Series.fillna(v)
fillna(s, v) == rows([i \in 1..Len(s) |-> IF s[i].nan THEN v ELSE s[i]], Len(s))

\* round(x, 2): the nearest multiple of 1/100, an exact half to the even one.
round2(x) ==
    LET fl == (100 * x.num) \div x.den
        rem == 100 * x.num - fl * x.den
        k == IF 2 * rem < x.den THEN fl
             ELSE IF 2 * rem > x.den THEN fl + 1
             ELSE IF fl % 2 = 0 THEN fl ELSE fl + 1
    IN  IF x.nan THEN NaN ELSE Rat(k, 100)

\* ------------------------------------------------------------ pandas Series
\* Sum of s[a..b].
RECURSIVE SumRange(_, _, _)
SumRange(s, a, b) == IF a > b THEN 0 ELSE s[b] + SumRange(s, a, b - 1)

\* Series.rolling(w).mean() of a column of prices: undefined until w rows are there.
rolling_mean(col, w) ==
    rows([i \in 1..Len(col) |-> IF i < w THEN NaN ELSE Rat(SumRange(col, i - w + 1, i), w)],
         Len(col))

\* Series.shift(1) of an integer column: a float column whose first row is NaN.
shift(col) ==
    rows([i \in 1..Len(col) |-> IF i = 1 THEN NaN ELSE Num(col[i - 1])], Len(col))

\* Series.pct_change() of a column of prices: price[t] / price[t-1] - 1.
pct_change(col) ==
    rows([i \in 1..Len(col) |->
            IF i = 1 THEN NaN ELSE Sub(Div(Num(col[i]), Num(col[i - 1])), One)],
         Len(col))

\* Series.cumprod(): the running product, skipping NaN rows (which stay NaN).
RECURSIVE cumprod_acc(_, _)
cumprod_acc(s, i) ==
    IF i = 0 THEN <<One>>
    ELSE LET acc == cumprod_acc(s, i - 1)
         IN  Append(acc, IF s[i].nan THEN acc[i] ELSE Mul(acc[i], s[i]))

cumprod(s) ==
    LET acc == cumprod_acc(s, Len(s))
    IN  rows([i \in 1..Len(s) |-> IF s[i].nan THEN NaN ELSE acc[i + 1]], Len(s))

\* Variant: the comparison written >=.
gt_int_or_equal(s, l) == IF Gt(s, l) \/ (~s.nan /\ ~l.nan /\ s = l) THEN 1 ELSE 0

\* (s > l).astype(int), element-wise.
gt_int(s, l) == IF Gt(s, l) THEN 1 ELSE 0

\* ------------------------------------------------------- calculate_signals
\* The window lengths (_p, _q) decoded by _cfg().
_cfg == <<2, 10>>

\* Variant: a buy flagged in every period whose signal is 1.
buy_flag_level(c, prev) == c = 1

\* df["buy"] at one row: (_c == 1) & (_c.shift(1) == 0)
buy_flag(c, prev) == c = 1 /\ EqNum(prev, 0)

\* Variant: a sell flagged at every change of the signal.
sell_flag_any_change(c, prev) == ~prev.nan /\ ~EqNum(prev, c)

\* df["sell"] at one row: (_c == 0) & (_c.shift(1) == 1)
sell_flag(c, prev) == c = 0 /\ EqNum(prev, 1)

\* Variant: the position taken from the same period's signal.
position_unshifted(c) == rows([i \in 1..Len(c) |-> Num(c[i])], Len(c))

\* df["position"] = _c.shift(1)
position_of(c) == shift(c)

calculate_signals(monthly_df) ==
    LET _p == _cfg[1]
        _q == _cfg[2]
        n == Len(monthly_df.close)
        _s == rolling_mean(monthly_df.close, _p)
        _l == rolling_mean(monthly_df.close, _q)
        _c == rows([i \in 1..n |-> gt_int(_s[i], _l[i])], n)
        prev == shift(_c)
    IN  [index |-> monthly_df.index,
         close |-> monthly_df.close,
         _x |-> _s,
         _y |-> _l,
         signal |-> _c,
         position |-> position_of(_c),
         buy |-> rows([i \in 1..n |-> buy_flag(_c[i], prev[i])], n),
         sell |-> rows([i \in 1..n |-> sell_flag(_c[i], prev[i])], n)]

\* Python's None.
None == [none |-> TRUE]

\* ------------------------------------------------------ get_current_signal
\* Variant: the guard asks for the long window only.
too_short_for_window(monthly_df) == Len(monthly_df.close) < _cfg[2]

\* monthly_df.empty or len(monthly_df) < 11
too_short(monthly_df) == Len(monthly_df.close) = 0 \/ Len(monthly_df.close) < MinLen

\* None, or the state of the last row of the signal table.
get_current_signal(monthly_df) ==
    IF too_short(monthly_df) THEN None
    ELSE LET df == calculate_signals(monthly_df)
             n == Len(df.signal)
         IN  [position |-> df.signal[n], new_buy |-> df.buy[n], new_sell |-> df.sell[n]]

\* The lists tab_signals appends an instrument to (src/app.py): none when the
\* series is too short or there is no signal, else the first of buy, sell, hold
\* whose test holds.
tab_signals_lists(monthly) ==
    LET sig == get_current_signal(monthly)
    IN  IF Len(monthly.close) = 0 \/ Len(monthly.close) < 11 THEN {}
        ELSE IF sig = None THEN {}
        ELSE IF sig.new_buy THEN {"buy_list"}
        ELSE IF sig.new_sell THEN {"sell_list"}
        ELSE IF sig.position = 1 THEN {"hold_list"}
        ELSE {}

\* ---------------------------------------------------------- backtest_stock
\* Variant: the in-position flag is not cleared when a trade is closed.
trade_step_stays_in(df, i, st) ==
    IF df.buy[i] /\ ~st._in
    THEN [_in |-> TRUE, _ed |-> df.index[i], _ep |-> df.close[i], trades |-> st.trades]
    ELSE IF df.sell[i] /\ st._in
    THEN [_in |-> TRUE, _ed |-> st._ed, _ep |-> st._ep,
          trades |-> Append(st.trades,
                            [entry_date |-> st._ed, exit_date |-> df.index[i],
                             entry_price |-> st._ep, exit_price |-> df.close[i],
                             pnl |-> round2(Rat((df.close[i] - st._ep) * 100, st._ep))])]
    ELSE st

\* One iteration of the trade loop on row i; st = [_in, _ed, _ep, trades].
trade_step(df, i, st) ==
    IF df.buy[i] /\ ~st._in
    THEN [_in |-> TRUE, _ed |-> df.index[i], _ep |-> df.close[i], trades |-> st.trades]
    ELSE IF df.sell[i] /\ st._in
    THEN LET _xp == df.close[i]
             _pnl == Rat((_xp - st._ep) * 100, st._ep)
         IN  [_in |-> FALSE, _ed |-> st._ed, _ep |-> st._ep,
              trades |-> Append(st.trades,
                                [entry_date |-> st._ed, exit_date |-> df.index[i],
                                 entry_price |-> st._ep, exit_price |-> _xp,
                                 pnl |-> round2(_pnl)])]
    ELSE st

\* The loop state after rows 1..i (for i, row in df.iterrows()).
RECURSIVE trade_loop(_, _)
trade_loop(df, i) ==
    IF i = 0
    THEN [_in |-> FALSE, _ed |-> 0, _ep |-> 0, trades |-> <<>>]
    ELSE trade_step(df, i, trade_loop(df, i - 1))

\* df["strategy_return"] = df["position"] * df["monthly_return"]
strategy_return(position, monthly_return) ==
    rows([i \in 1..Len(position) |-> Mul(position[i], monthly_return[i])], Len(position))

backtest_stock(monthly_df) ==
    LET df == calculate_signals(monthly_df)
        n == Len(df.close)
        mr == pct_change(df.close)
        sr == strategy_return(df.position, mr)
        filled == fillna(sr, Zero)
        cum == cumprod(rows([i \in 1..n |-> Add(One, filled[i])], n))
    IN  [signals_df |-> df,
         monthly_return |-> mr,
         returns |-> sr,
         cumulative |-> cum,
         trades |-> trade_loop(df, n).trades]

\* ------------------------------------------------------ backtest_portfolio
\* The row of timestamp ts in an index, 0 when it has none.
RECURSIVE row_of(_, _)
row_of(index, ts) ==
    IF index = <<>> THEN 0
    ELSE IF index[Len(index)] = ts THEN Len(index)
    ELSE row_of(SubSeq(index, 1, Len(index) - 1), ts)

\* The value a column holds at timestamp ts once reindexed: NaN where it has no row.
at(index, col, ts) ==
    LET r == row_of(index, ts)
    IN  IF r = 0 THEN NaN ELSE col[r]

\* A set of timestamps in ascending order.
RECURSIVE sorted(_)
sorted(S) ==
    IF S = {} THEN <<>>
    ELSE LET m == CHOOSE x \in S : \A y \in S : x <= y
         IN  <<m>> \o sorted(S \ {m})

\* Sum of f over the names of S, skipping NaN (DataFrame.sum(axis=1)).
RECURSIVE sum_skipna(_, _)
sum_skipna(f, S) ==
    IF S = {} THEN Zero
    ELSE LET c == CHOOSE x \in S : TRUE
             rest == sum_skipna(f, S \ {c})
         IN  IF f[c].nan THEN rest ELSE Add(f[c], rest)

\* Variant: only empty series are skipped.
qualifies_nonempty(mdf) == Len(mdf.close) # 0

\* The instruments the loop keeps: not (mdf.empty or len(mdf) < 11).
qualifies(mdf) == ~(Len(mdf.close) = 0 \/ Len(mdf.close) < MinLen)

\* Variant: the frame keeps only the timestamps every instrument has.
frame_index_common(all_monthly_data, names) ==
    {ts \in UNION {{all_monthly_data[k].index[i] : i \in 1..Len(all_monthly_data[k].index)} :
                      k \in names} :
        \A k \in names : \E i \in 1..Len(all_monthly_data[k].index) :
            all_monthly_data[k].index[i] = ts}

\* pd.DataFrame(dict of Series).index: the union of the Series' timestamps.
frame_index(all_monthly_data, names) ==
    UNION {{all_monthly_data[k].index[i] : i \in 1..Len(all_monthly_data[k].index)} : k \in names}

\* Variant: the weight is the number of active instruments.
weighted_sum_by_active(srow, rrow, names) ==
    LET prod == cells([k \in names |-> Mul(srow[k], rrow[k])], names)
        wr == cells([k \in names |-> IF prod[k].nan THEN Zero ELSE prod[k]], names)
        active == sum_skipna(srow, names)
    IN  IF active = Zero THEN Zero ELSE Div(sum_skipna(wr, names), active)

\* Variant: the returns are not gated by the position.
weighted_sum_ungated(srow, rrow, names) ==
    Div(sum_skipna(rrow, names), Num(N))

\* portfolio_returns at one timestamp: (sdf * rdf).fillna(0).sum(axis=1) / N
weighted_sum(srow, rrow, names) ==
    LET prod == cells([k \in names |-> Mul(srow[k], rrow[k])], names)
        wr == cells([k \in names |-> IF prod[k].nan THEN Zero ELSE prod[k]], names)
    IN  Div(sum_skipna(wr, names), Num(N))

backtest_portfolio(all_monthly_data) ==
    LET names == {k \in DOMAIN all_monthly_data : qualifies(all_monthly_data[k])}
        df == cells([k \in names |-> calculate_signals(all_monthly_data[k])], names)
        _as == cells([k \in names |-> df[k].position], names)
        _ar == cells([k \in names |-> pct_change(df[k].close)], names)
        sidx == frame_index(all_monthly_data, names)
        ridx == frame_index(all_monthly_data, names)
        cidx == sorted(sidx \cap ridx)
        m == Len(cidx)
        sdf == rows([i \in 1..m |->
                        cells([k \in names |-> at(df[k].index, _as[k], cidx[i])], names)], m)
        rdf == rows([i \in 1..m |->
                        cells([k \in names |-> at(df[k].index, _ar[k], cidx[i])], names)], m)
        active_counts == rows([i \in 1..m |-> sum_skipna(sdf[i], names)], m)
        portfolio_returns == rows([i \in 1..m |-> weighted_sum(sdf[i], rdf[i], names)], m)
        portfolio_cumulative ==
            cumprod(rows([i \in 1..m |-> Add(One, portfolio_returns[i])], m))
    IN  IF names = {}
        THEN [index |-> <<>>,
              portfolio_returns |-> <<>>,
              portfolio_cumulative |-> <<>>,
              active_counts |-> <<>>]
        ELSE [index |-> cidx,
              portfolio_returns |-> portfolio_returns,
              portfolio_cumulative |-> portfolio_cumulative,
              active_counts |-> active_counts]

\* ------------------------------------------------------ float64 summation
\* The exact rationals above stand for float64 values wherever the code's results
\* do not depend on rounding.  Series.std() > 0 does: the mean of a column is a
\* rounded sum divided by the count.  A float64 is here [neg, m, e]: the value
\* m * 2^e with a 53-bit m, held as a list of 12-bit digits, lowest first
\* (m = <<>>: zero).
Digit == 4096
DigitBits == 12
Mantissa == 53

RECURSIVE Pow2(_)
Pow2(k) == IF k = 0 THEN 1 ELSE 2 * Pow2(k - 1)

RECURSIVE BitLen(_)
BitLen(n) == IF n = 0 THEN 0 ELSE 1 + BitLen(n \div 2)

RECURSIVE BigNorm(_)
BigNorm(a) ==
    IF a = <<>> THEN <<>>
    ELSE IF a[Len(a)] = 0 THEN BigNorm(SubSeq(a, 1, Len(a) - 1))
    ELSE a

RECURSIVE Big(_)
Big(n) == IF n = 0 THEN <<>> ELSE <<n % Digit>> \o Big(n \div Digit)

BigBits(a) == IF a = <<>> THEN 0 ELSE DigitBits * (Len(a) - 1) + BitLen(a[Len(a)])

BigOdd(a) == a # <<>> /\ a[1] % 2 = 1

RECURSIVE BigAddCarry(_, _, _)
BigAddCarry(a, b, c) ==
    IF a = <<>> /\ b = <<>> THEN Big(c)
    ELSE LET x == (IF a = <<>> THEN 0 ELSE a[1]) + (IF b = <<>> THEN 0 ELSE b[1]) + c
         IN  <<x % Digit>> \o BigAddCarry(IF a = <<>> THEN <<>> ELSE Tail(a),
                                          IF b = <<>> THEN <<>> ELSE Tail(b),
                                          x \div Digit)

BigAdd(a, b) == BigAddCarry(a, b, 0)

\* a * k + c for a small k.
RECURSIVE BigMulSmall(_, _, _)
BigMulSmall(a, k, c) ==
    IF a = <<>> THEN Big(c)
    ELSE LET x == a[1] * k + c
         IN  <<x % Digit>> \o BigMulSmall(Tail(a), k, x \div Digit)

\* Quotient and remainder of a by a small k.
RECURSIVE BigDivSmall(_, _)
BigDivSmall(a, k) ==
    IF a = <<>> THEN [q |-> <<>>, r |-> 0]
    ELSE LET hi == BigDivSmall(Tail(a), k)
             cur == hi.r * Digit + a[1]
         IN  [q |-> BigNorm(<<cur \div k>> \o hi.q), r |-> cur % k]

\* a * 2^k
RECURSIVE BigShl(_, _)
BigShl(a, k) ==
    IF a = <<>> THEN <<>>
    ELSE IF k >= DigitBits THEN <<0>> \o BigShl(a, k - DigitBits)
    ELSE BigMulSmall(a, Pow2(k), 0)

\* a \div 2^k, and whether a bit was shifted out.
RECURSIVE BigShr(_, _)
BigShr(a, k) ==
    IF a = <<>> \/ k = 0 THEN [q |-> a, lost |-> FALSE]
    ELSE IF k >= DigitBits
    THEN LET rest == BigShr(Tail(a), k - DigitBits)
         IN  [q |-> rest.q, lost |-> rest.lost \/ a[1] # 0]
    ELSE LET d == BigDivSmall(a, Pow2(k))
         IN  [q |-> d.q, lost |-> d.r # 0]

Float64Zero == [neg |-> FALSE, m |-> <<>>, e |-> 0]

\* x * 2^e (plus a fraction of the last unit when `lost`) rounded to the nearest
\* float64, an exact half to the even mantissa.
RoundNearestEven(neg, x, e, lost) ==
    LET b == BigBits(x)
        sh == b - Mantissa
        g == BigShr(x, sh - 1)
        q == BigShr(g.q, 1).q
        up == BigOdd(g.q) /\ (g.lost \/ lost \/ BigOdd(q))
        m == IF up THEN BigAdd(q, Big(1)) ELSE q
    IN  IF x = <<>> THEN Float64Zero
        ELSE IF sh <= 0 THEN [neg |-> neg, m |-> BigShl(x, -sh), e |-> e + sh]
        ELSE IF BigBits(m) > Mantissa THEN [neg |-> neg, m |-> BigShr(m, 1).q, e |-> e + sh + 1]
        ELSE [neg |-> neg, m |-> m, e |-> e + sh]

\* The float64 nearest to the rational x.
float64(x) ==
    LET k == Mantissa + 3 + BitLen(x.den)
        d == BigDivSmall(BigShl(Big(Abs(x.num)), k), x.den)
    IN  RoundNearestEven(x.num < 0, d.q, -k, d.r # 0)

\* a + b for two float64 of the same sign.
float64_add(a, b) ==
    IF a.m = <<>> THEN b
    ELSE IF b.m = <<>> THEN a
    ELSE LET e0 == IF a.e < b.e THEN a.e ELSE b.e
         IN  RoundNearestEven(a.neg, BigAdd(BigShl(a.m, a.e - e0), BigShl(b.m, b.e - e0)),
                              e0, FALSE)

\* a / n for a count n.
float64_div_int(a, n) ==
    LET k == 3 + BitLen(n)
        d == BigDivSmall(BigShl(a.m, k), n)
    IN  RoundNearestEven(a.neg, d.q, a.e - k, d.r # 0)

\* numpy's sum of the float64 a[i..j], one after the other.
RECURSIVE sum_loop(_, _, _, _)
sum_loop(res, a, i, j) ==
    IF i > j THEN res ELSE sum_loop(float64_add(res, a[i]), a, i + 1, j)

\* numpy's sum of the float64 a[i], a[i + 8], ... below row `stop`.
RECURSIVE sum_stride(_, _, _, _)
sum_stride(res, a, i, stop) ==
    IF i > stop THEN res ELSE sum_stride(float64_add(res, a[i]), a, i + 8, stop)

\* ndarray.sum() of at most 128 float64: a plain loop below 8 values, else 8
\* running sums over the rows in steps of 8, added as a tree, then the rest.
pairwise_sum(a) ==
    LET n == Len(a)
        full == n - (n % 8)
        r == [j \in 1..8 |-> sum_stride(a[j], a, j + 8, full)]
    IN  IF n < 8 THEN sum_loop(Float64Zero, a, 1, n)
        ELSE sum_loop(float64_add(float64_add(float64_add(r[1], r[2]), float64_add(r[3], r[4])),
                                  float64_add(float64_add(r[5], r[6]), float64_add(r[7], r[8]))),
                      a, full + 1, n)

\* Variant: the ratio is taken whenever the deviation is not negative.
std_positive_or_zero(values) == Len(values) >= 2

\* Series.std() > 0 (ddof = 1): with one value the deviation is NaN; else the
\* squares of (sum / count - value) add up to more than 0 exactly when the float64
\* mean differs from a value, which it does when two values differ.
std_positive(values) ==
    LET n == Len(values)
        avg == float64_div_int(pairwise_sum(rows([i \in 1..n |-> float64(values[i])], n)), n)
    IN  /\ n >= 2
        /\ \/ \E i \in 2..n : values[i] # values[1]
           \/ avg # float64(values[1])

\* -------------------------------------------------------- calculate_metrics
\* A return series is [index, values]: timestamps and float values.
\* The rows of a column that hold a value, in order.
RECURSIVE kept_rows(_, _)
kept_rows(values, n) ==
    IF n = 0 THEN <<>>
    ELSE IF values[n].nan THEN kept_rows(values, n - 1)
    ELSE Append(kept_rows(values, n - 1), n)

\* Series.dropna()
dropna(s) ==
    LET k == kept_rows(s.values, Len(s.values))
    IN  [index |-> rows([i \in 1..Len(k) |-> s.index[k[i]]], Len(k)),
         values |-> rows([i \in 1..Len(k) |-> s.values[k[i]]], Len(k))]

\* a / b of two floats: 0 / 0 is NaN, x / 0 is infinite (den = 0).
truediv(a, b) ==
    IF a.nan \/ b.nan THEN NaN
    ELSE IF b.num # 0 THEN Div(a, b)
    ELSE IF a.num = 0 THEN NaN
    ELSE [nan |-> FALSE, num |-> IF a.num > 0 THEN 1 ELSE -1, den |-> 0]

\* Series.cummax() of a column without NaN.
RECURSIVE cummax(_)
cummax(col) ==
    IF Len(col) <= 1 THEN col
    ELSE LET head == cummax(SubSeq(col, 1, Len(col) - 1))
             last == col[Len(col)]
         IN  Append(head, IF Gt(last, head[Len(head)]) THEN last ELSE head[Len(head)])

\* Series.min(): the least value, skipping NaN; NaN when there is none.
RECURSIVE min_skipna(_)
min_skipna(col) ==
    IF col = <<>> THEN NaN
    ELSE LET head == min_skipna(SubSeq(col, 1, Len(col) - 1))
             last == col[Len(col)]
         IN  IF last.nan THEN head
             ELSE IF head.nan \/ Gt(head, last) THEN last
             ELSE head

\* Sum and mean of a column without NaN (0 rows: the mean is NaN).
RECURSIVE sum_of(_)
sum_of(col) == IF col = <<>> THEN Zero ELSE Add(sum_of(Tail(col)), col[1])

mean(col) == IF col = <<>> THEN NaN ELSE Div(sum_of(col), Num(Len(col)))

\* returns[returns > 0], returns[returns < 0], returns[returns != 0]
positive(col) == SelectSeq(col, LAMBDA x : Gt(x, Zero))
negative(col) == SelectSeq(col, LAMBDA x : Gt(Zero, x))
nonzero(col) == SelectSeq(col, LAMBDA x : x # Zero)

\* A value that is not rational, kept as the expression that yields it.
Irrational(name, args) == [nan |-> FALSE, expr |-> name, of |-> args]

IsRational(x) == DOMAIN x = {"nan", "num", "den"}

\* round(x, 1)
round1(x) ==
    LET y == round2(Div(x, Num(10)))
    IN  IF x.nan THEN NaN ELSE Mul(y, Num(10))

\* round(x * 100, 2); an irrational value is left as its expression.
percent2(x) == IF IsRational(x) THEN round2(Mul(x, Num(100))) ELSE x

\* round(x, 2); an irrational value is left as its expression.
rounded2(x) == IF IsRational(x) THEN round2(x) ELSE x

\* (1 + returns).cumprod()
growth(values) == cumprod(rows([i \in 1..Len(values) |-> Add(One, values[i])], Len(values)))

\* last ** (1 / n_years) - 1 if n_years > 0 and last > 0 else 0, n_years = n / 12:
\* 1 ** y is 1 and x ** 1.0 is x; every other power is irrational.
cagr_of(last, n) ==
    IF n > 0 /\ Gt(last, Zero)
    THEN IF last = One THEN Zero
         ELSE IF n = 12 THEN Sub(last, One)
         ELSE Irrational("last ** (12 / n) - 1", <<last, n>>)
    ELSE Zero

\* ((cumulative - peak) / peak).min()
mdd_of(cumulative) ==
    LET peak == cummax(cumulative)
        n == Len(cumulative)
    IN  min_skipna(rows([i \in 1..n |-> truediv(Sub(cumulative[i], peak[i]), peak[i])], n))

\* (mean / std) * sqrt(12) if std > 0 else 0
sharpe_of(values) ==
    IF std_positive(values) THEN Irrational("mean / std * sqrt(12)", values) ELSE Zero

\* positive_months / total_months * 100 if total_months > 0 else 0
win_rate_of(values) ==
    LET positive_months == Len(positive(values))
        total_months == Len(nonzero(values))
    IN  IF total_months > 0 THEN Rat(positive_months * 100, total_months) ELSE Zero

\* avg_win / avg_loss if avg_loss > 0 else 0
profit_loss_ratio_of(values) ==
    LET avg_win == IF positive(values) # <<>> THEN mean(positive(values)) ELSE Zero
        m == mean(negative(values))
        avg_loss == IF negative(values) # <<>> THEN Rat(Abs(m.num), m.den) ELSE One
    IN  IF Gt(avg_loss, Zero) THEN truediv(avg_win, avg_loss) ELSE Zero

\* Variant: the benchmark is not restricted to the shared periods.
common_rows_all(returns_index, bm_index) == [i \in 1..Len(bm_index) |-> i]

\* bm.loc[returns.index.intersection(bm.index)]: the rows of bm at the strategy's
\* timestamps, in the strategy's order.
common_rows(returns_index, bm_index) ==
    LET hit == SelectSeq(returns_index, LAMBDA ts : row_of(bm_index, ts) # 0)
    IN  rows([i \in 1..Len(hit) |-> row_of(bm_index, hit[i])], Len(hit))

\* The keys are the source's Korean labels, written in English; a benchmark key is
\* the strategy key behind "benchmark_".
strategy_metrics(values) ==
    LET cumulative == growth(values)
        last == cumulative[Len(cumulative)]
        total_return == Sub(last, One)
    IN  [cumulative_return_pct |-> percent2(total_return),
         cagr_pct |-> percent2(cagr_of(last, Len(values))),
         mdd_pct |-> percent2(mdd_of(cumulative)),
         sharpe |-> rounded2(sharpe_of(values)),
         win_rate_pct |-> round1(win_rate_of(values)),
         profit_loss_ratio |-> rounded2(profit_loss_ratio_of(values))]

benchmark_metrics(bm_common) ==
    LET bm_cum == growth(bm_common)
        last == bm_cum[Len(bm_cum)]
        bm_total == Sub(last, One)
    IN  [benchmark_cumulative_return_pct |-> percent2(bm_total),
         benchmark_cagr_pct |-> percent2(cagr_of(last, Len(bm_common))),
         benchmark_mdd_pct |-> percent2(mdd_of(bm_cum)),
         benchmark_sharpe |-> rounded2(sharpe_of(bm_common))]

calculate_metrics(returns_series, benchmark_series) ==
    LET returns == dropna(returns_series)
        bm == dropna(benchmark_series)
        common == common_rows(returns.index, bm.index)
        bm_common == rows([i \in 1..Len(common) |-> bm.values[common[i]]], Len(common))
    IN  IF Len(returns.values) = 0 THEN <<>>
        ELSE IF benchmark_series # None /\ Len(common) > 0
        THEN strategy_metrics(returns.values) @@ benchmark_metrics(bm_common)
        ELSE strategy_metrics(returns.values)

\* ------------------------------------------------------------------ inputs
\* Monthly closes take a low and a high level.
Prices == {1, MaxPrice}

\* The last month of every history.
Horizon == MaxWarm + MaxTail

\* A monthly close series: consecutive month-end timestamps, `last` the latest.
SeriesTo(close, last) ==
    [index |-> [i \in 1..Len(close) |-> last - Len(close) + i], close |-> close]

Series(close) == SeriesTo(close, Horizon)

Flat(b, w) == [i \in 1..w |-> b]

Tails(k) == UNION {[1..n -> Prices] : n \in 0..k}

\* The histories given to the single-instrument entry points.
PriceSeries ==
    {Series(Flat(b, w) \o t) : b \in Prices, w \in 0..MaxWarm, t \in Tails(MaxTail)}

\* The histories an instrument of a portfolio may have: newly listed (at most one
\* close), or the full flat history and at most k free closes.
PortSeries(last, k) ==
    {SeriesTo(t, last) : t \in Tails(1)}
    \cup {SeriesTo(Flat(b, PortWarm) \o t, last) : b \in Prices, t \in Tails(k)}

\* A mapping of some of the instruments; "B" may lack the latest month.
mapping(a, b) == ("A" :> a) @@ ("B" :> b)

Portfolios ==
    {<<>>}
    \cup {("A" :> a) : a \in PortSeries(Horizon, PortTail)}
    \cup UNION {{("B" :> b) : b \in PortSeries(Horizon - lag, PeerTail)} : lag \in {0, 1}}
    \cup UNION {{mapping(a, b) : a \in PortSeries(Horizon, PortTail),
                                 b \in PortSeries(Horizon - lag, PeerTail)} : lag \in {0, 1}}

\* The return values a caller may hand to calculate_metrics: a total loss, a loss,
\* no change, a gain that is not a binary fraction, and a missing value.
ReturnValues == {Rat(-1, 1), Rat(-1, 2), Zero, Rat(1, 10), NaN}

\* The values of a benchmark: a gain or a missing value.
BenchmarkValues == {Rat(1, 2), NaN}

\* A return series of consecutive months, `first` the earliest.
ReturnsFrom(values, first) ==
    [index |-> [i \in 1..Len(values) |-> first + i - 1], values |-> values]

NoReturns == ReturnsFrom(<<>>, 1)

ReturnSeries == {ReturnsFrom(v, 1) : v \in UNION {[1..n -> ReturnValues] : n \in 0..MaxReturns}}

\* No benchmark, or one that starts with the strategy or at month MaxReturns.
Benchmarks ==
    {None}
    \cup {ReturnsFrom(v, first) : v \in UNION {[1..n -> BenchmarkValues] : n \in 0..MaxBench},
                                  first \in {1, MaxReturns}}

\* The KOSPI returns next to a backtest: none fetched, or the pct_change of three
\* monthly closes up to the latest month.
KospiReturns ==
    {NoReturns, ReturnsFrom(pct_change(<<1, MaxPrice, 1>>), Horizon - 2)}

\* ------------------------------------------------------------------- state
VARIABLES
    loaded,            \* which of the caller's objects holds the data of the next call
    monthly_df,        \* the caller's price series of one instrument
    all_monthly_data,  \* the caller's mapping of instrument to price series
    returns_series,    \* the caller's return series
    benchmark_series,  \* the caller's benchmark return series (None: no benchmark)
    op,                \* the entry point that ran last ("idle": none yet)
    result             \* what it returned

vars == <<loaded, monthly_df, all_monthly_data, returns_series, benchmark_series, op, result>>

NoSeries == Series(<<>>)
NoMapping == <<>>

Init ==
    /\ loaded = "nothing"
    /\ monthly_df = NoSeries
    /\ all_monthly_data = NoMapping
    /\ returns_series = NoReturns
    /\ benchmark_series = None
    /\ op = "idle"
    /\ result = <<>>

\* The caller fetches the monthly closes of one instrument.
LoadSeries ==
    /\ loaded = "nothing"
    /\ \E input \in PriceSeries : monthly_df' = input
    /\ loaded' = "monthly_df"
    /\ UNCHANGED <<all_monthly_data, returns_series, benchmark_series, op, result>>

\* The caller fetches the monthly closes of the whole universe.
LoadPortfolio ==
    /\ loaded = "nothing"
    /\ \E input \in Portfolios : all_monthly_data' = input
    /\ loaded' = "all_monthly_data"
    /\ UNCHANGED <<monthly_df, returns_series, benchmark_series, op, result>>

\* The caller holds a return series and maybe a benchmark.
LoadReturns ==
    /\ loaded = "nothing"
    /\ \E input \in ReturnSeries : returns_series' = input
    /\ \E input \in Benchmarks : benchmark_series' = input
    /\ loaded' = "returns_series"
    /\ UNCHANGED <<monthly_df, all_monthly_data, op, result>>

\* Variant: the signal columns are written into the caller's frame.
caller_frame_aliased(mdf, df) == [index |-> mdf.index, close |-> mdf.close, signal |-> df.signal]

\* The caller's frame after calculate_signals(mdf) returned df: the columns went to
\* df = monthly_df.copy(), the caller's frame is what it was.
caller_frame(mdf, df) == mdf

CallCalculateSignals ==
    /\ loaded = "monthly_df"
    /\ op = "idle"
    /\ op' = "calculate_signals"
    /\ result' = calculate_signals(monthly_df)
    /\ monthly_df' = caller_frame(monthly_df, result')
    /\ UNCHANGED <<loaded, all_monthly_data, returns_series, benchmark_series>>

CallGetCurrentSignal ==
    /\ loaded = "monthly_df"
    /\ op = "idle"
    /\ op' = "get_current_signal"
    /\ result' = get_current_signal(monthly_df)
    /\ monthly_df' = caller_frame(monthly_df, calculate_signals(monthly_df))
    /\ UNCHANGED <<loaded, all_monthly_data, returns_series, benchmark_series>>

CallBacktestStock ==
    /\ loaded = "monthly_df"
    /\ op = "idle"
    /\ op' = "backtest_stock"
    /\ result' = backtest_stock(monthly_df)
    /\ monthly_df' = caller_frame(monthly_df, result'.signals_df)
    /\ UNCHANGED <<loaded, all_monthly_data, returns_series, benchmark_series>>

\* The loop calls calculate_signals(mdf) on the instruments it keeps.
CallBacktestPortfolio ==
    /\ loaded = "all_monthly_data"
    /\ op = "idle"
    /\ op' = "backtest_portfolio"
    /\ result' = backtest_portfolio(all_monthly_data)
    /\ all_monthly_data' =
           [k \in DOMAIN all_monthly_data |->
               IF qualifies(all_monthly_data[k])
               THEN caller_frame(all_monthly_data[k], calculate_signals(all_monthly_data[k]))
               ELSE all_monthly_data[k]]
    /\ UNCHANGED <<loaded, monthly_df, returns_series, benchmark_series>>

\* returns_series.dropna() and benchmark_series.dropna() are new objects.
CallCalculateMetrics ==
    /\ loaded = "returns_series"
    /\ op = "idle"
    /\ op' = "calculate_metrics"
    /\ result' = calculate_metrics(returns_series, benchmark_series)
    /\ UNCHANGED <<loaded, monthly_df, all_monthly_data, returns_series, benchmark_series>>

\* The caller takes result["returns"].dropna() of a single-instrument backtest and
\* the KOSPI returns as the next call's data.
TakeStockReturns ==
    /\ op = "backtest_stock"
    /\ returns_series' = dropna([index |-> result.signals_df.index, values |-> result.returns])
    /\ \E bm \in KospiReturns : benchmark_series' = bm
    /\ loaded' = "returns_series"
    /\ op' = "idle"
    /\ result' = <<>>
    /\ UNCHANGED <<monthly_df, all_monthly_data>>

\* The caller takes the portfolio returns and the KOSPI returns as the next call's
\* data.
TakePortfolioReturns ==
    /\ op = "backtest_portfolio"
    /\ returns_series' = [index |-> result.index, values |-> result.portfolio_returns]
    /\ \E bm \in KospiReturns : benchmark_series' = bm
    /\ loaded' = "returns_series"
    /\ op' = "idle"
    /\ result' = <<>>
    /\ UNCHANGED <<monthly_df, all_monthly_data>>

\* The caller is done with the returned value.
Return ==
    /\ op # "idle"
    /\ op' = "idle"
    /\ result' = <<>>
    /\ UNCHANGED <<loaded, monthly_df, all_monthly_data, returns_series, benchmark_series>>

Next ==
    \/ LoadSeries
    \/ LoadPortfolio
    \/ LoadReturns
    \/ CallCalculateSignals
    \/ CallGetCurrentSignal
    \/ CallBacktestStock
    \/ CallBacktestPortfolio
    \/ CallCalculateMetrics
    \/ TakeStockReturns
    \/ TakePortfolioReturns
    \/ Return

Spec == Init /\ [][Next]_vars

\* ------------------------------------------------------- signal properties
\* The signal table of the last call, when it produced one.
HasSignals == op \in {"calculate_signals", "backtest_stock"}

signals_df == IF op = "calculate_signals" THEN result ELSE result.signals_df

\* Both averages are defined at row t (t >= 10) and the 2-period average of the
\* input closes exceeds their 10-period average: sum2/2 > sum10/10.
ShortAboveLong(close, t) ==
    /\ t >= 10
    /\ 5 * (close[t - 1] + close[t]) > SumRange(close, t - 9, t)

AveragesTie(close, t) ==
    /\ t >= 10
    /\ 5 * (close[t - 1] + close[t]) = SumRange(close, t - 9, t)

\* C1: signal[t] = 1 exactly when both averages are defined at t and the short one
\* is strictly greater; equal averages give 0; a series shorter than the long
\* window has no signal 1, no buy and no sell.
C1_SignalIffShortAboveLong ==
    HasSignals =>
        LET df == signals_df
            close == monthly_df.close
            n == Len(close)
        IN  /\ Len(df.signal) = n
            /\ \A t \in 1..n :
                /\ df.signal[t] \in {0, 1}
                /\ df.signal[t] = 1 <=> ShortAboveLong(close, t)
                /\ AveragesTie(close, t) => df.signal[t] = 0
            /\ n < 10 => \A t \in 1..n : df.signal[t] # 1 /\ ~df.buy[t] /\ ~df.sell[t]

\* A series with a period of equal averages (signal 0) and a period of signal 1.
C1_Witness ==
    /\ op = "calculate_signals"
    /\ \E t, u \in 1..Len(monthly_df.close) :
        /\ AveragesTie(monthly_df.close, t)
        /\ result.signal[t] = 0
        /\ result.signal[u] = 1

\* C2: a buy or a sell is flagged at row t only when the signal of row t-1 is
\* defined (the long average is populated at t-1), so none of the first 10 rows
\* (0-based 0..9) is flagged.
C2_NoFlagInFirstTenPeriods ==
    HasSignals =>
        \A t \in 1..Len(monthly_df.close) :
            (signals_df.buy[t] \/ signals_df.sell[t]) => t - 1 >= 10

\* C3: buy and sell are never both true in the same period.
C3_BuySellExclusive ==
    HasSignals =>
        \A t \in 1..Len(monthly_df.close) : ~(signals_df.buy[t] /\ signals_df.sell[t])

\* A series with a buy period and a sell period.
C3_Witness ==
    /\ op = "calculate_signals"
    /\ \E t, u \in 1..Len(monthly_df.close) : result.buy[t] /\ result.sell[u]

\* ------------------------------------------------------ backtest_stock properties
\* The price return of row t >= 2 of the input closes.
PriceReturn(close, t) == Rat(close[t] - close[t - 1], close[t - 1])

\* C4: the strategy return of period t is the price return of t times the signal
\* of t-1: a buy period earns nothing, the period after a buy earns its price
\* return, and a sell period still earns its price return.
C4_NoLookahead ==
    op = "backtest_stock" =>
        LET df == result.signals_df
            close == monthly_df.close
            n == Len(close)
        IN  /\ Len(result.returns) = n
            /\ \A t \in 2..n :
                /\ result.returns[t] =
                       IF df.signal[t - 1] = 1 THEN PriceReturn(close, t) ELSE Zero
                /\ df.buy[t] => result.returns[t] = Zero
                /\ df.buy[t - 1] => result.returns[t] = PriceReturn(close, t)
                /\ df.sell[t] => result.returns[t] = PriceReturn(close, t)

\* A buy period whose own price return is not 0, followed by a period that earns
\* a non-zero return, and a sell period that earns a non-zero return.
C4_Witness ==
    /\ op = "backtest_stock"
    /\ \E t, u \in 2..Len(monthly_df.close) :
        /\ result.signals_df.buy[t - 1]
        /\ t >= 3
        /\ PriceReturn(monthly_df.close, t - 1) # Zero
        /\ result.returns[t] # Zero
        /\ result.signals_df.sell[u]
        /\ result.returns[u] # Zero

\* The rows flagged buy / sell.
BuyRows(df) == {t \in 1..Len(df.buy) : df.buy[t]}
SellRows(df) == {t \in 1..Len(df.sell) : df.sell[t]}

\* The first sell row after row b (0 when there is none).
FirstSellAfter(df, b) ==
    IF \E x \in SellRows(df) : x > b
    THEN CHOOSE x \in SellRows(df) : x > b /\ \A y \in SellRows(df) : y > b => x <= y
    ELSE 0

\* C5: the trades are the chronological pairing of each buy period with the first
\* sell period after it; exit is strictly after entry, no other buy lies between
\* them, trades do not overlap, and a buy with no later sell yields no trade.
C5_TradesPairBuyWithNextSell ==
    op = "backtest_stock" =>
        LET df == result.signals_df
            trades == result.trades
            closed == {b \in BuyRows(df) : FirstSellAfter(df, b) # 0}
        IN  /\ Len(trades) = Cardinality(closed)
            /\ {<<tr.entry_date, tr.exit_date, tr.entry_price, tr.exit_price>> :
                    tr \in {trades[j] : j \in 1..Len(trades)}}
               = {<<df.index[b], df.index[FirstSellAfter(df, b)],
                    df.close[b], df.close[FirstSellAfter(df, b)]>> : b \in closed}
            /\ \A j \in 1..Len(trades) :
                /\ trades[j].exit_date > trades[j].entry_date
                /\ ~\E b \in BuyRows(df) :
                        /\ df.index[b] > trades[j].entry_date
                        /\ df.index[b] < trades[j].exit_date
                /\ j < Len(trades) => trades[j].exit_date < trades[j + 1].entry_date

\* A closed trade followed by a buy that is still open at the end of the series.
C5_Witness ==
    /\ op = "backtest_stock"
    /\ Len(result.trades) >= 1
    /\ \E b \in BuyRows(result.signals_df) :
        /\ FirstSellAfter(result.signals_df, b) = 0
        /\ result.signals_df.index[b] > result.trades[Len(result.trades)].exit_date

\* -------------------------------------------------- backtest_portfolio properties
\* The instruments with at least 11 observations.
Qualifying == {k \in DOMAIN all_monthly_data : Len(all_monthly_data[k].close) >= 11}

\* The timestamps of a series, and the row that holds ts (0: none).
Timestamps(mdf) == {mdf.index[i] : i \in 1..Len(mdf.index)}

RefRow(mdf, ts) ==
    IF ts \in Timestamps(mdf) THEN CHOOSE i \in 1..Len(mdf.index) : mdf.index[i] = ts ELSE 0

\* Whether the instrument is active at ts (the signal of its previous row is 1), and
\* its raw return at ts; a missing position or return counts as 0.
RefActive(mdf, ts) == RefRow(mdf, ts) >= 2 /\ ShortAboveLong(mdf.close, RefRow(mdf, ts) - 1)

RefReturn(mdf, ts) ==
    IF RefRow(mdf, ts) >= 2 THEN PriceReturn(mdf.close, RefRow(mdf, ts)) ELSE Zero

\* Sum over the instruments of S of position * raw return at ts.
RECURSIVE RefGatedSum(_, _)
RefGatedSum(S, ts) ==
    IF S = {} THEN Zero
    ELSE LET k == CHOOSE x \in S : TRUE
             mdf == all_monthly_data[k]
         IN  Add(IF RefActive(mdf, ts) THEN RefReturn(mdf, ts) ELSE Zero,
                 RefGatedSum(S \ {k}, ts))

\* C6: every period's portfolio return is the sum over the qualifying instruments
\* of position * raw return (missing counted as 0) divided by the fixed 30.
C6_ReturnIsGatedSumOverThirty ==
    op = "backtest_portfolio" =>
        /\ Len(result.portfolio_returns) = Len(result.index)
        /\ \A i \in 1..Len(result.index) :
            result.portfolio_returns[i] = Div(RefGatedSum(Qualifying, result.index[i]), Num(30))

\* One active instrument with a positive return and one inactive instrument with a
\* negative return in the same period: the period returns the positive return / 30.
C6_Witness ==
    /\ op = "backtest_portfolio"
    /\ \E i \in 1..Len(result.index) : \E a, b \in Qualifying :
        LET ts == result.index[i] IN
        /\ RefActive(all_monthly_data[a], ts)
        /\ Gt(RefReturn(all_monthly_data[a], ts), Zero)
        /\ ~RefActive(all_monthly_data[b], ts)
        /\ Gt(Zero, RefReturn(all_monthly_data[b], ts))
        /\ result.portfolio_returns[i] = Div(RefReturn(all_monthly_data[a], ts), Num(30))

\* C7: in a period whose active count is 0 the portfolio return is exactly 0 and
\* the cumulative growth is that of the previous period.
C7_ZeroActiveZeroReturn ==
    op = "backtest_portfolio" =>
        \A i \in 1..Len(result.index) :
            result.active_counts[i] = Zero =>
                /\ result.portfolio_returns[i] = Zero
                /\ result.portfolio_cumulative[i] =
                       IF i = 1 THEN One ELSE result.portfolio_cumulative[i - 1]

\* A period with no active instrument in which an instrument's raw return is not 0,
\* after the growth has already moved away from 1.
C7_Witness ==
    /\ op = "backtest_portfolio"
    /\ \E i \in 2..Len(result.index) :
        /\ result.active_counts[i] = Zero
        /\ \E k \in Qualifying : RefReturn(all_monthly_data[k], result.index[i]) # Zero
        /\ result.portfolio_cumulative[i - 1] # One

\* C8: the outputs cover every timestamp at which at least one qualifying
\* instrument has an observation (no truncation to the shortest history), and an
\* instrument without an observation at a timestamp adds nothing to that period's
\* return or active count.
C8_UnionOfTimestamps ==
    op = "backtest_portfolio" =>
        LET present(ts) == {k \in Qualifying : ts \in Timestamps(all_monthly_data[k])}
            m == Len(result.index)
        IN  /\ {result.index[i] : i \in 1..m} =
                   UNION {Timestamps(all_monthly_data[k]) : k \in Qualifying}
            /\ \A i \in 1..m : i < m => result.index[i] < result.index[i + 1]
            /\ Len(result.portfolio_returns) = m
            /\ Len(result.portfolio_cumulative) = m
            /\ Len(result.active_counts) = m
            /\ \A i \in 1..m :
                /\ result.active_counts[i] =
                       Num(Cardinality({k \in present(result.index[i]) :
                               RefActive(all_monthly_data[k], result.index[i])}))
                /\ result.portfolio_returns[i] =
                       Div(RefGatedSum(present(result.index[i]), result.index[i]), Num(30))

\* Two qualifying instruments, and a period with a non-zero portfolio return at a
\* timestamp one of them has no observation for.
C8_Witness ==
    /\ op = "backtest_portfolio"
    /\ Cardinality(Qualifying) = 2
    /\ \E i \in 1..Len(result.index) : \E k \in Qualifying :
        /\ result.index[i] \notin Timestamps(all_monthly_data[k])
        /\ result.portfolio_returns[i] # Zero

\* The mapping without the instruments of fewer than 11 observations.
OnlyQualifying == [k \in Qualifying |-> all_monthly_data[k]]

\* C9: instruments that are empty or have fewer than 11 observations change none
\* of the outputs, and with no qualifying instrument all three outputs are empty.
C9_ShortInstrumentsIgnored ==
    op = "backtest_portfolio" =>
        /\ result = backtest_portfolio(OnlyQualifying)
        /\ {result.index[i] : i \in 1..Len(result.index)} \subseteq
               UNION {Timestamps(all_monthly_data[k]) : k \in Qualifying}
        /\ Qualifying = {} =>
            /\ result.portfolio_returns = <<>>
            /\ result.portfolio_cumulative = <<>>
            /\ result.active_counts = <<>>

\* A mapping with a non-empty instrument of fewer than 11 observations next to a
\* qualifying one whose returns are not all 0.
C9_Witness ==
    /\ op = "backtest_portfolio"
    /\ Qualifying # {}
    /\ \E k \in DOMAIN all_monthly_data :
        /\ k \notin Qualifying
        /\ Len(all_monthly_data[k].close) > 0
    /\ \E i \in 1..Len(result.index) : result.portfolio_returns[i] # Zero

\* C10: for a series of fewer than 11 observations backtest_stock returns the
\* explicit no-result value: empty returns, empty cumulative series, no trades.
C10_ShortSeriesGivesNoResult ==
    (op = "backtest_stock" /\ Len(monthly_df.close) < 11) =>
        /\ result.returns = <<>>
        /\ result.cumulative = <<>>
        /\ result.trades = <<>>

\* ------------------------------------------------- cumulative growth properties
\* The first row of a return column that holds a value (Len + 1: none does).
FirstDefined(s) ==
    IF \E t \in 1..Len(s) : ~s[t].nan
    THEN CHOOSE t \in 1..Len(s) : ~s[t].nan /\ \A u \in 1..(t - 1) : s[u].nan
    ELSE Len(s) + 1

\* The first period of the portfolio at which some qualifying instrument has both a
\* position and a raw return, i.e. is at its second row or later (Len + 1: none).
FirstGated ==
    LET m == Len(result.index)
        gated(i) == \E k \in Qualifying : RefRow(all_monthly_data[k], result.index[i]) >= 2
    IN  IF \E i \in 1..m : gated(i)
        THEN CHOOSE i \in 1..m : gated(i) /\ \A j \in 1..(i - 1) : ~gated(j)
        ELSE m + 1

\* No return of the column is below -100% (a missing return counts as 0).
NoneBelowMinusOne(r) == \A t \in 1..Len(r) : r[t].nan \/ ~Gt(Num(-1), r[t])

\* C11: the cumulative growth of backtest_stock and of backtest_portfolio is
\* strictly positive in every period when no period return is below -100%, and is
\* 1 in every period before the first defined gated return.
C11_GrowthPositiveAndOneBeforeFirstReturn ==
    /\ op = "backtest_stock" =>
        LET r == result.returns
            cum == result.cumulative
        IN  /\ Len(cum) = Len(monthly_df.close)
            /\ NoneBelowMinusOne(r) => \A t \in 1..Len(cum) : Gt(cum[t], Zero)
            /\ \A t \in 1..Len(cum) : t < FirstDefined(r) => cum[t] = One
    /\ op = "backtest_portfolio" =>
        LET r == result.portfolio_returns
            cum == result.portfolio_cumulative
        IN  /\ Len(cum) = Len(r)
            /\ NoneBelowMinusOne(r) => \A t \in 1..Len(cum) : Gt(cum[t], Zero)
            /\ \A t \in 1..Len(cum) : t < FirstGated => cum[t] = One

\* A series whose first defined return is that of its second period, with a growth
\* that falls below 1 in a period of negative return and is still positive.
C11_Witness ==
    /\ op = "backtest_stock"
    /\ FirstDefined(result.returns) = 2
    /\ result.cumulative[1] = One
    /\ \E t \in 2..Len(result.returns) :
        /\ Gt(Zero, result.returns[t])
        /\ Gt(One, result.cumulative[t])
        /\ Gt(result.cumulative[t], Zero)

\* ------------------------------------------------ calculate_metrics properties
\* The returns that calculate_metrics works on, and whether it returned metrics.
DefinedReturns == dropna(returns_series).values

HasMetrics == op = "calculate_metrics" /\ result # <<>>

\* C12: for every non-empty return series the maximum drawdown is <= 0, and it is
\* exactly 0 when no return is negative.
C12_DrawdownNeverPositive ==
    HasMetrics =>
        /\ ~result.mdd_pct.nan
        /\ ~Gt(result.mdd_pct, Zero)
        /\ (\A i \in 1..Len(DefinedReturns) : ~Gt(Zero, DefinedReturns[i])) =>
               result.mdd_pct = Zero

\* C13: the Sharpe-like ratio is exactly 0 when the returns have zero variance: all
\* of them equal, or a single one.
C13_ZeroVarianceGivesZeroSharpe ==
    (HasMetrics /\ \A i \in 1..Len(DefinedReturns) : DefinedReturns[i] = DefinedReturns[1]) =>
        result.sharpe = Zero

StrategyKeys ==
    {"cumulative_return_pct", "cagr_pct", "mdd_pct", "sharpe", "win_rate_pct",
     "profit_loss_ratio"}

BenchmarkKeys ==
    {"benchmark_cumulative_return_pct", "benchmark_cagr_pct", "benchmark_mdd_pct",
     "benchmark_sharpe"}

\* The timestamps at which a return series holds a value.
DefinedPeriods(s) == {s.index[i] : i \in {j \in 1..Len(s.index) : ~s.values[j].nan}}

\* The periods the strategy and the benchmark both have a value for.
SharedPeriods ==
    IF benchmark_series = None THEN {}
    ELSE DefinedPeriods(returns_series) \cap DefinedPeriods(benchmark_series)

\* The series s without the rows outside the periods of S.
Restricted(s, S) ==
    LET keep == SelectSeq([i \in 1..Len(s.index) |-> i], LAMBDA i : s.index[i] \in S)
    IN  [index |-> [i \in 1..Len(keep) |-> s.index[keep[i]]],
         values |-> [i \in 1..Len(keep) |-> s.values[keep[i]]]]

\* The product of (1 + value) over the periods of S.
RECURSIVE RefGrowth(_, _)
RefGrowth(s, S) ==
    IF S = {} THEN One
    ELSE LET ts == CHOOSE x \in S : TRUE
         IN  Mul(Add(One, s.values[RefRow(s, ts)]), RefGrowth(s, S \ {ts}))

\* C14: the four benchmark metrics are emitted exactly when a benchmark is given
\* and shares a defined period with the strategy's defined returns; they are those
\* of the benchmark over the shared periods only; no benchmark win rate or
\* profit/loss ratio is emitted; and the six strategy metrics are the same with and
\* without a benchmark.
C14_BenchmarkOverSharedPeriods ==
    op = "calculate_metrics" =>
        LET alone == calculate_metrics(returns_series, None)
            shared == Restricted(benchmark_series, SharedPeriods)
            of_shared == calculate_metrics(shared, None)
        IN  /\ result = <<>> <=> DefinedPeriods(returns_series) = {}
            /\ result # <<>> =>
                /\ DOMAIN result =
                       StrategyKeys \cup (IF SharedPeriods # {} THEN BenchmarkKeys ELSE {})
                /\ \A k \in StrategyKeys : result[k] = alone[k]
            /\ SharedPeriods # {} =>
                /\ result.benchmark_cumulative_return_pct =
                       round2(Mul(Sub(RefGrowth(benchmark_series, SharedPeriods), One),
                                  Num(100)))
                /\ result.benchmark_cumulative_return_pct = of_shared.cumulative_return_pct
                /\ result.benchmark_cagr_pct = of_shared.cagr_pct
                /\ result.benchmark_mdd_pct = of_shared.mdd_pct
                /\ result.benchmark_sharpe = of_shared.sharpe

\* A benchmark that shares a period with the strategy and has a value in a period
\* the strategy has none for.
C14_Witness ==
    /\ HasMetrics
    /\ SharedPeriods # {}
    /\ DefinedPeriods(benchmark_series) \ DefinedPeriods(returns_series) # {}
    /\ "benchmark_sharpe" \in DOMAIN result

\* ------------------------------------------------------------ end-to-end example
\* A price series of 20 identical values.
Flat20 ==
    /\ Len(monthly_df.close) = 20
    /\ \A i \in 1..20 : monthly_df.close[i] = monthly_df.close[1]

\* The return series the caller takes from the backtest of monthly_df.
ReturnsOfBacktest ==
    LET bt == backtest_stock(monthly_df)
    IN  dropna([index |-> bt.signals_df.index, values |-> bt.returns])

\* C15: for a flat series of 20 identical prices backtest_stock gives a growth of 1
\* in every period and no trades, and the metrics of its returns are CAGR = 0,
\* MDD = 0, Sharpe = 0, win rate = 0 and profit/loss ratio = 0.
C15_FlatSeriesAllZero ==
    /\ (op = "backtest_stock" /\ Flat20) =>
        /\ Len(result.cumulative) = 20
        /\ \A t \in 1..20 : result.cumulative[t] = One
        /\ result.trades = <<>>
    /\ (op = "calculate_metrics" /\ Flat20 /\ returns_series = ReturnsOfBacktest) =>
        /\ result # <<>>
        /\ result.cagr_pct = Zero
        /\ result.mdd_pct = Zero
        /\ result.sharpe = Zero
        /\ result.win_rate_pct = Zero
        /\ result.profit_loss_ratio = Zero

\* The metrics of the 19 returns of a flat series of 20 prices.
C15_Witness ==
    /\ HasMetrics
    /\ Flat20
    /\ returns_series = ReturnsOfBacktest
    /\ Len(returns_series.values) = 19
    /\ result.cumulative_return_pct = Zero

\* ------------------------------------------------------------- frame properties
\* The caller's data.
Inputs == <<monthly_df, all_monthly_data, returns_series, benchmark_series>>

\* What one call of the entry point o returns for the caller's data.
SingleCall(o) ==
    CASE o = "calculate_signals" -> calculate_signals(monthly_df)
      [] o = "backtest_stock" -> backtest_stock(monthly_df)
      [] o = "backtest_portfolio" -> backtest_portfolio(all_monthly_data)
      [] o = "calculate_metrics" -> calculate_metrics(returns_series, benchmark_series)

C17_InPositionFollowsSignal ==
    op = "backtest_stock" =>
        LET df == result.signals_df
            n == Len(df.signal)
            st == rows([t \in 1..n |-> trade_loop(df, t)], n)
            before(t) == IF t = 1 THEN FALSE ELSE st[t - 1]._in
            flags == BuyRows(df) \cup SellRows(df)
        IN  /\ \A t \in 1..n : st[t]._in <=> df.signal[t] = 1
            /\ \A t \in BuyRows(df) : ~before(t)
            /\ \A t \in SellRows(df) : before(t)
            /\ \A t \in flags : (\A u \in flags : t <= u) => t \in BuyRows(df)
            /\ \A t, u \in flags :
                (t < u /\ \A x \in flags : ~(t < x /\ x < u)) =>
                    (t \in BuyRows(df) <=> u \in SellRows(df))
            /\ Len(result.trades) = Cardinality(SellRows(df))

\* A series with two sell periods, and so two trades.
C17_Witness ==
    /\ op = "backtest_stock"
    /\ Cardinality(SellRows(result.signals_df)) >= 2
    /\ Len(result.trades) >= 2

\* -------------------------------------------------- get_current_signal properties
\* C18: get_current_signal returns None exactly for an empty series or one of fewer
\* than 11 observations; else position is the last signal, new_buy and new_sell are
\* not both true, new_buy needs position 1 and new_sell position 0; so tab_signals
\* puts the instrument in at most one list, the one its flags name.
C18_CurrentSignalConsistent ==
    op = "get_current_signal" =>
        LET close == monthly_df.close
            n == Len(close)
            lists == tab_signals_lists(monthly_df)
        IN  /\ result = None <=> (n = 0 \/ n < 11)
            /\ result # None =>
                /\ result.position \in {0, 1}
                /\ result.position = 1 <=> ShortAboveLong(close, n)
                /\ ~(result.new_buy /\ result.new_sell)
                /\ result.new_buy => result.position = 1
                /\ result.new_sell => result.position = 0
                /\ Cardinality(lists) <= 1
                /\ "buy_list" \in lists <=> result.new_buy
                /\ "sell_list" \in lists <=> result.new_sell
                /\ "hold_list" \in lists <=> (result.position = 1 /\ ~result.new_buy)
            /\ result = None => lists = {}

\* A series of at least 11 closes whose last period is a new sell.
C18_Witness ==
    /\ op = "get_current_signal"
    /\ result # None
    /\ result.new_sell
    /\ result.position = 0
    /\ tab_signals_lists(monthly_df) = {"sell_list"}

====
